---- MODULE Spec2Model ----
(***************************************************************************)
(* Delay-tolerant-workload scheduling and cron-trigger advancement of      *)
(* mistral (mistral/services/periodic.py over mistral/db/v2/sqlalchemy).   *)
(*                                                                         *)
(* Several runner processes share one store.  Each runner executes, one    *)
(* store operation per step, the bodies of process_cron_triggers_v2 and    *)
(* process_delay_tolerant_workload.  Time is counted in minutes.           *)
(***************************************************************************)
EXTENDS Integers, Sequences, FiniteSets, Bags, TLC

(* ------------------------------ bounds -------------------------------- *)

\* number of runner processes sharing the store
NumRunners == 2
\* the clock runs from 0 to MaxTime
MaxTime == 2
\* largest initial remaining_executions of a user-made cron trigger
MaxCount == 2
\* largest cron period (minutes) of a user-made cron trigger
MaxPeriod == 1
\* cron triggers the placement policies may insert in one behaviour
MaxCreated == 2
\* calls of the cron loop that may raise in one behaviour
MaxFailures == 2

(* --------------------------- program values --------------------------- *)

\* Python's None, for remaining_executions, pattern and job_duration
None == -1

\* threshold for work to be considered long term (in minutes)
MINIMUM_LONG_TERM_WORKLOAD == 360

Runners == 1 .. NumRunners

VARIABLES
    now,            \* wall clock, minutes
    mode,           \* CONF.engine.dtw_scheduler_mode
    cron_triggers,  \* table of CronTrigger rows
    next_id,        \* next primary key of the CronTrigger table
    dtws,           \* table of DTWorkload rows, by name
    pc,             \* per runner: position in its periodic task
    todo,           \* per runner: rest of the list its loop iterates over
    t,              \* per runner: the cron trigger object in hand
    d,              \* per runner: the DTW object in hand
    found,          \* per runner: ids returned by the lookup by name
    ctx,            \* per runner: ambient security context (auth_ctx)
    raised,         \* per runner: exception that ended its last DTW tick
    tick,           \* per runner: (history) its last DTW tick
    returned,       \* (history) results of advance_cron_trigger
    failed,         \* (history) exceptions caught by the cron loop
    cron_starts,    \* (history) start_workflow calls of the cron loop
    dtw_starts,     \* (history) start_workflow calls of the DTW policies
    wrote_executed, \* (history) who wrote executed = True for which DTW
    call,           \* a call of a scheduling function: arguments and result
    dtw_rows,       \* bag of the names of the rows of the DTWorkload table
    api             \* the last call of the DTW service or store by the API

vars == <<now, mode, cron_triggers, next_id, dtws, pc, todo, t, d, found,
          ctx, raised, tick, returned, failed, cron_starts, dtw_starts,
          wrote_executed, call, dtw_rows, api>>

cron_vars == <<cron_triggers, pc, todo, t, found, ctx, returned, failed,
              cron_starts>>
dtw_vars == <<dtws, next_id, d, raised, tick, dtw_starts, wrote_executed>>
api_vars == <<dtw_rows, api>>

(* ------------------------------ helpers ------------------------------- *)

\* All orderings of a finite set, as sequences without repetition.
SeqsOf(S) ==
    {s \in [1 .. Cardinality(S) -> S] :
        \A i, j \in 1 .. Cardinality(S) : i # j => s[i] # s[j]}

NoTrigger == [id |-> 0, name |-> "", pattern |-> None,
              next_execution_time |-> 0, remaining_executions |-> None]

NoDtw == [name |-> "", deadline |-> 0, job_duration |-> None,
          scope |-> "", executed |-> FALSE, scheduled |-> FALSE]

(* --------------------------- the cron store --------------------------- *)

\* triggers.get_next_execution_time(pattern, start_time): the first fire
\* time of the pattern strictly after start_time; a pattern is a period.
get_next_execution_time(pattern, start_time) ==
    ((start_time \div pattern) + 1) * pattern

\* (mutant) WHERE next_execution_time <= time
GetCronTriggersNotAfter(time) ==
    {row \in cron_triggers : row.next_execution_time <= time}

\* db_api.get_next_cron_triggers(time): WHERE next_execution_time < time
get_next_cron_triggers(time) ==
    {row \in cron_triggers : row.next_execution_time < time}

\* ... ORDER BY next_execution_time (rows of equal time in any order)
OrderedByNextExecutionTime(s) ==
    \A i, j \in 1 .. Len(s) :
        i < j => s[i].next_execution_time <= s[j].next_execution_time

\* db_api._get_cron_trigger(name): the rows of that name (none or one)
GetCronTrigger(name) == {row \in cron_triggers : row.name = name}

\* (mutant) the count of the object in hand is not decremented
KeepRemaining(rem) == rem

\* advance_cron_trigger: "if t.remaining_executions is not None and
\* t.remaining_executions > 0: t.remaining_executions -= 1"
DecrementRemaining(rem) ==
    IF rem # None /\ rem > 0 THEN rem - 1 ELSE rem

\* (mutant) the last execution is tested before the decrement
IsLastExecutionBeforeDecrement(rem) == rem + 1 = 0

\* advance_cron_trigger: "if t.remaining_executions == 0" (the last
\* execution: delete) "else" (update)
IsLastExecution(rem) == rem = 0

\* delete_cron_trigger: DELETE FROM cron_triggers WHERE id = :id
DeleteById(id) == {row \in cron_triggers : row.id # id}

\* (mutant) the DELETE is taken to have removed a row whatever it matched
DeleteRowcountAlwaysOne(id) == Cardinality({id})

\* delete_cron_trigger: "return result.rowcount"
DeleteRowcount(id) == Cardinality({row \in cron_triggers : row.id = id})

\* (mutant) the UPDATE drops the query_filter: no compare-and-swap
UpdateMatchIdOnly(id, filter_next) ==
    {row \in cron_triggers : row.id = id}

\* update_cron_trigger with query_filter: update_on_match matches the row
\* WHERE id = :id AND next_execution_time = :filter
UpdateMatch(id, filter_next) ==
    {row \in cron_triggers :
        row.id = id /\ row.next_execution_time = filter_next}

\* ... and SETs next_execution_time and remaining_executions on it
UpdateOnMatch(id, filter_next, next_time, rem) ==
    {IF row \in UpdateMatch(id, filter_next)
        THEN [row EXCEPT !.next_execution_time = next_time,
                         !.remaining_executions = rem]
        ELSE row : row \in cron_triggers}

\* (mutant) "return modified_count >= 0"
AdvanceResultNonNegative(modified_count) == modified_count >= 0

\* advance_cron_trigger: "return modified_count > 0"
AdvanceResult(modified_count) == modified_count > 0

(* ---------------------- process_cron_triggers_v2 ---------------------- *)

\* "for t in <rest>:" the loop takes its next trigger, sets the security
\* context from it and enters advance_cron_trigger, which first decrements
\* the count on the object in hand; an exhausted loop ends the task.  The
\* context was cleared by the previous iteration's finally.
CronLoop(r, rest) ==
    IF rest = <<>>
    THEN /\ pc' = [pc EXCEPT ![r] = "idle"]
         /\ t' = [t EXCEPT ![r] = NoTrigger]
         /\ ctx' = [ctx EXCEPT ![r] = ""]
         /\ todo' = [todo EXCEPT ![r] = <<>>]
    ELSE /\ pc' = [pc EXCEPT ![r] = "adv_get"]
         /\ t' = [t EXCEPT ![r] =
                    [Head(rest) EXCEPT !.remaining_executions =
                        DecrementRemaining(Head(rest).remaining_executions)]]
         /\ ctx' = [ctx EXCEPT ![r] = Head(rest).name]
         /\ todo' = [todo EXCEPT ![r] = Tail(rest)]

\* triggers.get_next_cron_triggers(): the query that feeds the loop
CronList(r) ==
    /\ pc[r] = "idle"
    /\ \E s \in SeqsOf(get_next_cron_triggers(now)) :
          /\ OrderedByNextExecutionTime(s)
          /\ CronLoop(r, s)
    /\ UNCHANGED call
    /\ UNCHANGED api_vars
    /\ UNCHANGED <<now, mode, cron_triggers, found, returned, failed, cron_starts>>
    /\ UNCHANGED dtw_vars

\* delete_cron_trigger / update_cron_trigger: the lookup by name.  No row:
\* DBEntityNotFoundError, caught in advance_cron_trigger, which returns
\* with modified_count still 0.
AdvGet(r) ==
    /\ pc[r] = "adv_get"
    /\ LET rows == GetCronTrigger(t[r].name) IN
       IF rows = {}
       THEN /\ returned' = returned \cup
                   {[r |-> r, id |-> t[r].id,
                     next |-> t[r].next_execution_time,
                     how |-> "not_found",
                     result |-> AdvanceResult(0)]}
            /\ IF AdvanceResult(0)
               THEN /\ pc' = [pc EXCEPT ![r] = "cron_start"]
                    /\ UNCHANGED <<t, ctx, todo>>
               ELSE CronLoop(r, todo[r])
            /\ found' = found
       ELSE /\ found' = [found EXCEPT ![r] = {row.id : row \in rows}]
            /\ pc' = [pc EXCEPT ![r] = "adv_write"]
            /\ UNCHANGED <<ctx, returned, t, todo>>
    /\ UNCHANGED failed
    /\ UNCHANGED call
    /\ UNCHANGED api_vars
    /\ UNCHANGED <<now, mode, cron_triggers, cron_starts>>
    /\ UNCHANGED dtw_vars

\* the DELETE by id (last execution) or the conditional UPDATE, and the
\* return of advance_cron_trigger; "if modified:" decides on the start
AdvWrite(r) ==
    /\ pc[r] = "adv_write"
    /\ \E id \in found[r] :
        LET rem == t[r].remaining_executions
            last == IsLastExecution(rem)
            filter_next == t[r].next_execution_time
            modified_count ==
                IF last
                THEN DeleteRowcount(id)
                ELSE IF UpdateMatch(id, filter_next) # {} THEN 1 ELSE 0
            how == IF last
                   THEN IF modified_count > 0 THEN "deleted" ELSE "rowcount_0"
                   ELSE IF modified_count > 0 THEN "updated"
                                             ELSE "no_rows_matched"
        IN  /\ cron_triggers' =
                IF last
                THEN DeleteById(id)
                ELSE UpdateOnMatch(id, filter_next,
                        get_next_execution_time(t[r].pattern, filter_next),
                        rem)
            /\ returned' = returned \cup
                   {[r |-> r, id |-> t[r].id, next |-> filter_next,
                     how |-> how, result |-> AdvanceResult(modified_count)]}
            /\ IF AdvanceResult(modified_count)
               THEN /\ pc' = [pc EXCEPT ![r] = "cron_start"]
                    /\ UNCHANGED <<t, ctx, todo>>
               ELSE CronLoop(r, todo[r])
    /\ found' = [found EXCEPT ![r] = {}]
    /\ UNCHANGED failed
    /\ UNCHANGED call
    /\ UNCHANGED api_vars
    /\ UNCHANGED <<now, mode, cron_starts>>
    /\ UNCHANGED dtw_vars

\* rpc.get_engine_client().start_workflow(...): an exception of the call
\* is caught and logged; finally the context is cleared
CronStart(r) ==
    /\ pc[r] = "cron_start"
    /\ cron_starts' = cron_starts (+)
            SetToBag({<<r, t[r].id, t[r].next_execution_time>>})
    /\ CronLoop(r, todo[r])
    /\ UNCHANGED call
    /\ UNCHANGED api_vars
    /\ UNCHANGED <<now, mode, cron_triggers, found, returned, failed>>
    /\ UNCHANGED dtw_vars

\* (mutant) an exception of one trigger ends the loop
LeaveLoopAfterException(rest) == <<>>

\* "except Exception:" logs and the for loop continues with the triggers
\* still in its list
AfterException(rest) == rest

\* an exception other than DBEntityNotFoundError leaves
\* advance_cron_trigger (the store is unavailable, the pattern does not
\* parse): nothing is written and no workflow is started; the loop's
\* except catches it and its finally clears the context
AdvanceRaises(r) ==
    /\ pc[r] \in {"adv_get", "adv_write"}
    /\ Cardinality(failed) < MaxFailures
    /\ failed' = failed \cup
            {[r |-> r, id |-> t[r].id, next |-> t[r].next_execution_time,
              at |-> "advance_cron_trigger"]}
    /\ found' = [found EXCEPT ![r] = {}]
    /\ CronLoop(r, AfterException(todo[r]))
    /\ UNCHANGED call
    /\ UNCHANGED api_vars
    /\ UNCHANGED <<now, mode, cron_triggers, returned, cron_starts>>
    /\ UNCHANGED dtw_vars

\* start_workflow is called and raises: the loop's except catches it and
\* its finally clears the context
CronStartRaises(r) ==
    /\ pc[r] = "cron_start"
    /\ Cardinality(failed) < MaxFailures
    /\ cron_starts' = cron_starts (+)
            SetToBag({<<r, t[r].id, t[r].next_execution_time>>})
    /\ failed' = failed \cup
            {[r |-> r, id |-> t[r].id, next |-> t[r].next_execution_time,
              at |-> "start_workflow"]}
    /\ CronLoop(r, AfterException(todo[r]))
    /\ UNCHANGED call
    /\ UNCHANGED api_vars
    /\ UNCHANGED <<now, mode, cron_triggers, found, returned>>
    /\ UNCHANGED dtw_vars

\* the wall clock advances
Clock ==
    /\ now < MaxTime
    /\ now' = now + 1
    /\ UNCHANGED call
    /\ UNCHANGED api_vars
    /\ UNCHANGED <<mode, cron_triggers, pc, todo, t, found, ctx, returned, failed,
                   cron_starts>>
    /\ UNCHANGED dtw_vars

(* ---------------------------- the DTW store --------------------------- *)

\* the functions mistral/services/delay_tolerant_workload.py defines
DtwServiceFunctions ==
    {"get_unscheduled_delay_tolerant_workload",
     "create_delay_tolerant_workload"}

\* (mutant) the query drops its filter on the executed column
AllDelayTolerantWorkloads(executed) ==
    {dtws[n] : n \in DOMAIN dtws}

\* db_api.get_delay_tolerant_workloads_with_execution(executed):
\* WHERE executed = :executed
get_delay_tolerant_workloads_with_execution(executed) ==
    {row \in {dtws[n] : n \in DOMAIN dtws} : row.executed = executed}

\* dtw.get_unscheduled_delay_tolerant_workload()
get_unscheduled_delay_tolerant_workload ==
    get_delay_tolerant_workloads_with_execution(FALSE)

\* (mutant) the update writes the executed column whichever column is named
UpdateWritesExecuted(name, field, value) ==
    [n \in DOMAIN dtws |->
        IF n = name THEN [dtws[n] EXCEPT !.executed = value] ELSE dtws[n]]

\* (mutant) the update flips the stored value of the column
UpdateFlipsColumn(name, field, value) ==
    [n \in DOMAIN dtws |->
        IF n = name
        THEN IF field = "executed"
             THEN [dtws[n] EXCEPT !.executed = ~dtws[n].executed]
             ELSE [dtws[n] EXCEPT !.scheduled = ~dtws[n].scheduled]
        ELSE dtws[n]]

\* db_api.update_delay_tolerant_workload(name, values) without
\* query_filter: the row of that name takes the values, whatever it holds
update_delay_tolerant_workload(name, field, value) ==
    [n \in DOMAIN dtws |->
        IF n = name
        THEN IF field = "executed"
             THEN [dtws[n] EXCEPT !.executed = value]
             ELSE [dtws[n] EXCEPT !.scheduled = value]
        ELSE dtws[n]]

\* triggers.create_cron_trigger(name, ..., count, first_time, start_time):
\* the row handed to db_api.create_cron_trigger
NewCronTrigger(id, name, count, first_time) ==
    [id |-> id, name |-> name, pattern |-> None,
     next_execution_time |-> first_time, remaining_executions |-> count]

\* (mutant) the name column carries no unique constraint
NoDuplicateEntry(name) == \E row \in {} : row.name = name

\* db_api.create_cron_trigger: DBDuplicateEntryError when the name is taken
DuplicateEntry(name) == \E row \in cron_triggers : row.name = name

\* ids 1 and 2 belong to the triggers users created; the policies may
\* still hand out MaxCreated ids after them
FirstCreatedId == 3
MayCreate == next_id < FirstCreatedId + MaxCreated

(* ------------------ process_delay_tolerant_workload ------------------- *)

\* the names a tick finds with executed = False when it starts
UnexecutedNames == {row.name : row \in get_unscheduled_delay_tolerant_workload}

\* an exception leaves the policy loop and the task: the rest of the list
\* is dropped and the security context stays as it was set
AbortTick(r, exception) ==
    /\ raised' = [raised EXCEPT ![r] = exception]
    /\ pc' = [pc EXCEPT ![r] = "idle"]
    /\ todo' = [todo EXCEPT ![r] = <<>>]
    /\ d' = [d EXCEPT ![r] = NoDtw]

\* (mutant) the legacy key dtw_scheduler_last_minute, when set, selects the
\* last-minute policy whatever the mode says
DtwPolicyLegacyKeyFirst(dtw_scheduler_mode, dtw_scheduler_last_minute) ==
    IF dtw_scheduler_last_minute THEN "_dtw_last_minute_scheduling"
    ELSE IF dtw_scheduler_mode = "immediately"
    THEN "_dtw_schedule_immediately"
    ELSE IF dtw_scheduler_mode = "last-minute"
    THEN "_dtw_last_minute_scheduling"
    ELSE IF dtw_scheduler_mode = "energy-aware"
    THEN "_dtw_energy_aware_scheduling"
    ELSE "AttributeError"

\* (mutant) the final else runs the last policy instead of raising
DtwPolicyElseEnergyAware(dtw_scheduler_mode, dtw_scheduler_last_minute) ==
    IF dtw_scheduler_mode = "immediately"
    THEN "_dtw_schedule_immediately"
    ELSE IF dtw_scheduler_mode = "last-minute"
    THEN "_dtw_last_minute_scheduling"
    ELSE "_dtw_energy_aware_scheduling"

\* process_delay_tolerant_workload: the if / elif chain over
\* CONF.engine.dtw_scheduler_mode names the policy body to run, the final
\* else is "raise AttributeError"; CONF.engine.dtw_scheduler_last_minute is
\* imported (import_opt) and never read
DtwPolicy(dtw_scheduler_mode, dtw_scheduler_last_minute) ==
    IF dtw_scheduler_mode = "immediately"
    THEN "_dtw_schedule_immediately"
    ELSE IF dtw_scheduler_mode = "last-minute"
    THEN "_dtw_last_minute_scheduling"
    ELSE IF dtw_scheduler_mode = "energy-aware"
    THEN "_dtw_energy_aware_scheduling"
    ELSE "AttributeError"

\* the policy a tick runs under some value of the legacy key
Runs(policy) ==
    policy \in {DtwPolicy(mode, dtw_scheduler_last_minute) :
                    dtw_scheduler_last_minute \in BOOLEAN}

\* (history) what a tick that starts now and runs policy will have seen
TickOf(policy) ==
    [mode |-> mode, unexecuted |-> UnexecutedNames, policy |-> policy]

\* mode 'immediately': _dtw_schedule_immediately iterates over
\* dtw.get_delay_tolerant_workload_with_execution(), which the service
\* module does not define: the attribute lookup raises AttributeError
\* before any workload is handled.  An unknown mode: "raise AttributeError".
DtwRaiseAttributeError(r) ==
    /\ pc[r] = "idle"
    /\ \/ /\ Runs("_dtw_schedule_immediately")
          /\ "get_delay_tolerant_workload_with_execution"
                \notin DtwServiceFunctions
          /\ tick' = [tick EXCEPT ![r] = TickOf("_dtw_schedule_immediately")]
       \/ /\ Runs("AttributeError")
          /\ tick' = [tick EXCEPT ![r] = TickOf("")]
    /\ raised' = [raised EXCEPT ![r] = "AttributeError"]
    /\ UNCHANGED call
    /\ UNCHANGED api_vars
    /\ UNCHANGED <<now, mode, dtws, next_id, d, dtw_starts, wrote_executed>>
    /\ UNCHANGED cron_vars

\* _dtw_last_minute_scheduling: "for d in <rest>:" sets the security
\* context from d; the loop has no try and no finally
LmLoop(r, rest) ==
    IF rest = <<>>
    THEN /\ pc' = [pc EXCEPT ![r] = "idle"]
         /\ d' = [d EXCEPT ![r] = NoDtw]
         /\ todo' = [todo EXCEPT ![r] = <<>>]
         /\ ctx' = ctx
    ELSE /\ pc' = [pc EXCEPT ![r] = "lm_update"]
         /\ d' = [d EXCEPT ![r] = Head(rest)]
         /\ todo' = [todo EXCEPT ![r] = Tail(rest)]
         /\ ctx' = [ctx EXCEPT ![r] = Head(rest).name]

\* mode 'last-minute': the query for the unscheduled workloads
LmList(r) ==
    /\ pc[r] = "idle"
    /\ Runs("_dtw_last_minute_scheduling")
    /\ \E s \in SeqsOf(get_unscheduled_delay_tolerant_workload) : LmLoop(r, s)
    /\ tick' = [tick EXCEPT ![r] = TickOf("_dtw_last_minute_scheduling")]
    /\ raised' = [raised EXCEPT ![r] = ""]
    /\ UNCHANGED call
    /\ UNCHANGED api_vars
    /\ UNCHANGED <<now, mode, cron_triggers, dtws, next_id, t, found,
                   returned, failed, cron_starts, dtw_starts, wrote_executed>>

\* update_delay_tolerant_workload(d.name, {'scheduled': True})
LmUpdate(r) ==
    /\ pc[r] = "lm_update"
    /\ IF d[r].name \in DOMAIN dtws
       THEN /\ dtws' = update_delay_tolerant_workload(d[r].name,
                                                      "scheduled", TRUE)
            /\ pc' = [pc EXCEPT ![r] = "lm_create"]
            /\ UNCHANGED <<raised, todo, d>>
       ELSE /\ AbortTick(r, "DBEntityNotFoundError")
            /\ dtws' = dtws
    /\ UNCHANGED call
    /\ UNCHANGED api_vars
    /\ UNCHANGED <<now, mode, cron_triggers, next_id, t, found, ctx, tick,
                   returned, failed, cron_starts, dtw_starts, wrote_executed>>

\* start_time = d.deadline - datetime.timedelta(minutes=d.job_duration):
\* TypeError for a job_duration of None
LastMinuteStartTime(dtw) == dtw.deadline - dtw.job_duration

\* ... and triggers.create_cron_trigger(d.name, ..., count=1,
\* first_time=start_time, start_time=start_time, trust_id=d.trust_id)
LmCreate(r) ==
    /\ pc[r] = "lm_create"
    /\ IF d[r].job_duration = None
       THEN /\ AbortTick(r, "TypeError")
            /\ UNCHANGED <<cron_triggers, next_id, ctx>>
       ELSE IF DuplicateEntry(d[r].name)
       THEN /\ AbortTick(r, "DBDuplicateEntryError")
            /\ UNCHANGED <<cron_triggers, next_id, ctx>>
       ELSE /\ MayCreate
            /\ cron_triggers' = cron_triggers \cup
                    {NewCronTrigger(next_id, d[r].name, 1,
                                    LastMinuteStartTime(d[r]))}
            /\ next_id' = next_id + 1
            /\ LmLoop(r, todo[r])
            /\ raised' = raised
    /\ UNCHANGED call
    /\ UNCHANGED api_vars
    /\ UNCHANGED <<now, mode, dtws, t, found, tick, returned, failed, cron_starts,
                   dtw_starts, wrote_executed>>

\* _dtw_energy_aware_scheduling: "for d in <rest>:" sets the security
\* context from d and branches on "d.job_duration > 360" (None compares
\* below every number)
EaLoop(r, rest, context) ==
    IF rest = <<>>
    THEN /\ pc' = [pc EXCEPT ![r] = "idle"]
         /\ d' = [d EXCEPT ![r] = NoDtw]
         /\ todo' = [todo EXCEPT ![r] = <<>>]
         /\ ctx' = [ctx EXCEPT ![r] = context]
    ELSE /\ pc' = [pc EXCEPT ![r] =
                    IF Head(rest).job_duration > MINIMUM_LONG_TERM_WORKLOAD
                    THEN "ea_update" ELSE "ea_short"]
         /\ d' = [d EXCEPT ![r] = Head(rest)]
         /\ todo' = [todo EXCEPT ![r] = Tail(rest)]
         /\ ctx' = [ctx EXCEPT ![r] = Head(rest).name]

\* mode 'energy-aware': the query for the unscheduled workloads
EaList(r) ==
    /\ pc[r] = "idle"
    /\ Runs("_dtw_energy_aware_scheduling")
    /\ \E s \in SeqsOf(get_unscheduled_delay_tolerant_workload) :
            EaLoop(r, s, ctx[r])
    /\ tick' = [tick EXCEPT ![r] = TickOf("_dtw_energy_aware_scheduling")]
    /\ raised' = [raised EXCEPT ![r] = ""]
    /\ UNCHANGED call
    /\ UNCHANGED api_vars
    /\ UNCHANGED <<now, mode, cron_triggers, dtws, next_id, t, found,
                   returned, failed, cron_starts, dtw_starts, wrote_executed>>

\* long-term workload: update_delay_tolerant_workload(d.name,
\* {'executed': True}) inside the try; a missing row is caught and logged,
\* finally clears the context
EaUpdate(r) ==
    /\ pc[r] = "ea_update"
    /\ IF d[r].name \in DOMAIN dtws
       THEN /\ dtws' = update_delay_tolerant_workload(d[r].name,
                                                      "executed", TRUE)
            /\ wrote_executed' = wrote_executed \cup {<<r, d[r].name>>}
            /\ pc' = [pc EXCEPT ![r] = "ea_start"]
            /\ UNCHANGED <<todo, d, ctx>>
       ELSE /\ EaLoop(r, todo[r], "")
            /\ UNCHANGED <<dtws, wrote_executed>>
    /\ UNCHANGED call
    /\ UNCHANGED api_vars
    /\ UNCHANGED <<now, mode, cron_triggers, next_id, t, found, raised, tick,
                   returned, failed, cron_starts, dtw_starts>>

\* ... then rpc.get_engine_client().start_workflow(d.workflow.name, ...,
\* description="DTW Workflow execution created."); an exception of the call
\* is caught and logged; finally clears the context
EaStart(r) ==
    /\ pc[r] = "ea_start"
    /\ dtw_starts' = dtw_starts (+) SetToBag({<<r, d[r].name>>})
    /\ EaLoop(r, todo[r], "")
    /\ UNCHANGED call
    /\ UNCHANGED api_vars
    /\ UNCHANGED <<now, mode, cron_triggers, dtws, next_id, t, found, raised,
                   tick, returned, failed, cron_starts, wrote_executed>>

(* ----------------------- the price endpoint --------------------------- *)

\* what requests.get('http://localhost:9500/energy-price') can meet
EndpointReplies ==
    {"ConnectionError",     \* no connection: requests.ConnectionError
     "non_2xx_no_json",     \* an error status with a body that is not JSON
     "non_2xx_json",        \* an error status with a JSON object as body
     "malformed_body",      \* status 200 with a body that is not JSON
     "null_body",           \* status 200, body "null"
     "empty_object",        \* status 200, body "{}"
     "prices"}              \* status 200, the prices as a JSON object

\* the outcome of a call: the exception it raised or the value it returned
Returns(value) == [raised |-> "", value |-> value]
Raises(exception) == [raised |-> exception, value |-> "None"]

\* _get_energy_prices: "return requests.get(...).json()" and "except
\* requests.ConnectionError: return None".  The status is not looked at;
\* json() raises ValueError for a body that is not JSON and returns the
\* decoded body otherwise, a JSON object as a dict with string keys.
get_energy_prices(reply) ==
    CASE reply = "ConnectionError" -> Returns("None")
      [] reply \in {"non_2xx_no_json", "malformed_body"} -> Raises("ValueError")
      [] reply = "non_2xx_json" -> Returns("error_object")
      [] reply = "null_body" -> Returns("None")
      [] reply = "empty_object" -> Returns("empty")
      [] reply = "prices" -> Returns("string_keyed_prices")

\* (mutant) "if not energy_prices" is never taken
NeverFalsy(value) == value \in {}

\* "not energy_prices": None and the empty dict
Falsy(value) == value \in {"None", "empty"}

\* the result of _determine_optimal_scheduling, with whether it went
\* through _find_optimal_start_time_with_data
Scheduling(exception, value, solver) ==
    [raised |-> exception, value |-> value, solver |-> solver]

\* prices are kept in hundredths: the curves carry up to two decimals
PriceScale == 100

\* minutes of an hour, hours of a day
Hour == 60
Day == 24 * Hour

\* datetime.datetime.combine(today, datetime.time(hour=i)), in minutes
\* after today's midnight
HourKey(i) == i * Hour

\* a map keyed by the 24 hours that start at first, from its prices
HourlyPrices(first, prices) ==
    [k \in {first + HourKey(i) : i \in 0 .. 23} |->
        prices[((k - first) \div Hour) + 1]]

\* test_data.ENERGY_PRICES, keyed by datetime
ENERGY_PRICES ==
    [intra_day |-> HourlyPrices(0,
        <<2400, 2300, 1740, 1850, 2000, 2600, 2820, 3080, 3230, 3200, 3960,
          4490, 3200, 3300, 3180, 2950, 3050, 3060, 3100, 3200, 3620, 2920,
          3440, 3360>>),
     day_ahead |-> HourlyPrices(Day,
        <<3040, 2730, 2700, 1900, 2050, 2720, 3040, 3480, 3620, 3540, 3650,
          4600, 4200, 3400, 4300, 3380, 3455, 3600, 3760, 3810, 3350, 3750,
          3700, 3500>>)]

\* the same price at every hour
FlatPrices ==
    [intra_day |-> HourlyPrices(0, [i \in 1 .. 24 |-> 30 * PriceScale]),
     day_ahead |-> HourlyPrices(Day, [i \in 1 .. 24 |-> 30 * PriceScale])]

\* a curve with a negative price (-1.00) at 17:00 of today
NegativePrices ==
    [intra_day |-> HourlyPrices(0,
        [i \in 1 .. 24 |-> IF i = 18 THEN -1 * PriceScale
                                      ELSE 30 * PriceScale]),
     day_ahead |-> HourlyPrices(Day, [i \in 1 .. 24 |-> 30 * PriceScale])]

\* the price curves with datetime keys the solver is called with
PriceCurves ==
    [name \in {"ENERGY_PRICES", "flat", "negative"} |->
        CASE name = "ENERGY_PRICES" -> ENERGY_PRICES
          [] name = "flat" -> FlatPrices
          [] name = "negative" -> NegativePrices]

\* ep = dict(); ep.update(energy_prices['intra-day']);
\* ep.update(energy_prices['day-ahead'])
MergedPrices(energy_prices) ==
    energy_prices.day_ahead @@ energy_prices.intra_day

\* (mutant) only the hours before the current one are removed
PastHoursBeforeCurrent(current_time) ==
    {HourKey(i) : i \in 0 .. (current_time \div Hour) - 1}

\* "for i in range(0, current_time.hour + 1)": the keys of today's hours
\* up to the current one
PastHours(current_time) ==
    {HourKey(i) : i \in 0 .. (current_time \div Hour)}

\* final_time: today's midnight + timedelta(days=2)
FinalTime == 2 * Day

\* (mutant) an hour-aligned deadline - job_duration is itself the first
\* hour removed
IterTimeFromAlignedHour(job_duration, deadline) ==
    IF (deadline - job_duration) % Hour = 0
    THEN deadline - job_duration
    ELSE deadline - job_duration - ((deadline - job_duration) % Hour) + Hour

\* (mutant) two hours are added
IterTimeAnHourLater(job_duration, deadline) ==
    deadline - job_duration - ((deadline - job_duration) % Hour) + 2 * Hour

\* iter_time: deadline - job_duration without its minutes and seconds,
\* plus one hour
IterTime(job_duration, deadline) ==
    LET iter_time_approx == deadline - job_duration
    IN iter_time_approx - (iter_time_approx % Hour) + Hour

\* the keys "while iter_time < final_time: del ep[iter_time]" removes
LateHours(job_duration, deadline) ==
    IF deadline - job_duration < FinalTime
    THEN {k \in IterTime(job_duration, deadline) .. FinalTime - 1 :
            (k - IterTime(job_duration, deadline)) % Hour = 0}
    ELSE {}

\* int(job_duration_hours): the whole hours of the job, towards zero
JobHours(job_duration) ==
    IF job_duration >= 0
    THEN job_duration \div Hour
    ELSE 0 - ((0 - job_duration) \div Hour)

\* the keys ref_ep is read at for a start at start_time
CostKeys(start_time, job_duration) ==
    {start_time + HourKey(i) : i \in 0 .. JobHours(job_duration) - 1}

RECURSIVE SumOf(_, _)
SumOf(ref_ep, keys) ==
    IF keys = {}
    THEN 0
    ELSE LET k == CHOOSE x \in keys : TRUE
         IN ref_ep[k] + SumOf(ref_ep, keys \ {k})

\* job_cost of a start at start_time
JobCost(ref_ep, start_time, job_duration) ==
    SumOf(ref_ep, CostKeys(start_time, job_duration))

\* minimum_price = -1: no minimum yet
NoMinimumYet == -1 * PriceScale

\* "for t in ep", ep yielding its keys in this order, from the minimum
\* found so far
RECURSIVE MinimumOver(_, _, _, _, _)
MinimumOver(order, ref_ep, job_duration, minimum_price, minimum_time) ==
    IF order = <<>>
    THEN Scheduling("", minimum_time, TRUE)
    ELSE IF ~(CostKeys(Head(order), job_duration) \subseteq DOMAIN ref_ep)
    THEN Scheduling("KeyError", None, TRUE)
    ELSE LET job_cost == JobCost(ref_ep, Head(order), job_duration)
         IN IF minimum_price = NoMinimumYet \/ job_cost < minimum_price
            THEN MinimumOver(Tail(order), ref_ep, job_duration, job_cost,
                             Head(order))
            ELSE MinimumOver(Tail(order), ref_ep, job_duration,
                             minimum_price, minimum_time)

\* the keys left in ep when the loop over it starts
Candidates(current_time, energy_prices, job_duration, deadline) ==
    (DOMAIN MergedPrices(energy_prices) \ PastHours(current_time))
        \ LateHours(job_duration, deadline)

\* the keys in ascending order
RECURSIVE Ascending(_)
Ascending(keys) ==
    IF keys = {}
    THEN <<>>
    ELSE LET k == CHOOSE x \in keys : \A y \in keys : x <= y
         IN <<k>> \o Ascending(keys \ {k})

Reversed(s) == [i \in 1 .. Len(s) |-> s[Len(s) + 1 - i]]

Rotations(s) ==
    {SubSeq(s, i + 1, Len(s)) \o SubSeq(s, 1, i) : i \in 0 .. Len(s)}

\* the orders in which a dict may yield its keys: no order is promised.
\* Taken over the rotations of the ascending and of the descending order,
\* which are all the orders of up to three keys.
IterationOrders(keys) ==
    Rotations(Ascending(keys)) \cup Rotations(Reversed(Ascending(keys)))

\* _find_optimal_start_time_with_data on a curve with datetime keys, ep
\* yielding its keys in the given order
OptimalStart(current_time, energy_prices, job_duration, deadline, order) ==
    LET ref_ep == MergedPrices(energy_prices)
    IN IF ~(PastHours(current_time) \subseteq DOMAIN ref_ep)
       THEN Scheduling("KeyError", None, TRUE)
       ELSE IF deadline = None \/ job_duration = None
       THEN Scheduling("TypeError", None, TRUE)
       ELSE IF ~(LateHours(job_duration, deadline) \subseteq
                    DOMAIN ref_ep \ PastHours(current_time))
       THEN Scheduling("KeyError", None, TRUE)
       ELSE MinimumOver(order, ref_ep, job_duration, NoMinimumYet, None)

\* _find_optimal_start_time_with_data.  On what _get_energy_prices
\* returns: energy_prices['intra-day'] is a TypeError on None and a
\* KeyError on a dict without that key; on the decoded prices the first
\* "del ep[k]" looks the datetime k up among string keys: KeyError.  On a
\* curve with datetime keys: the solver proper.
find_optimal_start_time_with_data(current_time, energy_prices, job_duration, deadline, order) ==
    IF energy_prices = "None"
    THEN Scheduling("TypeError", None, TRUE)
    ELSE IF energy_prices \notin DOMAIN PriceCurves
    THEN Scheduling("KeyError", None, TRUE)
    ELSE OptimalStart(current_time, PriceCurves[energy_prices],
                      job_duration, deadline, order)

\* _determine_optimal_scheduling(job_duration, deadline) at current_time,
\* the endpoint answering with reply.  No key of a decoded JSON object is
\* a datetime: the solver raises before it iterates over ep, in no order.
determine_optimal_scheduling(reply, job_duration, deadline, current_time) ==
    LET energy_prices == get_energy_prices(reply)
    IN IF energy_prices.raised # ""
       THEN Scheduling(energy_prices.raised, None, FALSE)
       ELSE IF Falsy(energy_prices.value)
       THEN Scheduling("", current_time + 2, FALSE)
       ELSE find_optimal_start_time_with_data(current_time,
                energy_prices.value, job_duration, deadline, <<>>)

\* short-term workload: scheduling_time = _determine_optimal_scheduling(
\* d.job_duration, d.deadline), then triggers.create_cron_trigger(d.name,
\* ..., count=1, first_time=scheduling_time, start_time=scheduling_time).
\* Nothing is caught here and the context is not cleared.
EaShort(r) ==
    /\ pc[r] = "ea_short"
    /\ \E scheduling \in {determine_optimal_scheduling(
                reply, d[r].job_duration, d[r].deadline, now) :
                    reply \in EndpointReplies} :
           IF scheduling.raised # ""
           THEN /\ AbortTick(r, scheduling.raised)
                /\ UNCHANGED <<cron_triggers, next_id, ctx>>
           ELSE IF DuplicateEntry(d[r].name)
           THEN /\ AbortTick(r, "DBDuplicateEntryError")
                /\ UNCHANGED <<cron_triggers, next_id, ctx>>
           ELSE /\ MayCreate
                /\ cron_triggers' = cron_triggers \cup
                       {NewCronTrigger(next_id, d[r].name, 1,
                                       scheduling.value)}
                /\ next_id' = next_id + 1
                /\ EaLoop(r, todo[r], ctx[r])
                /\ raised' = raised
    /\ UNCHANGED call
    /\ UNCHANGED api_vars
    /\ UNCHANGED <<now, mode, dtws, t, found, tick, returned, failed, cron_starts,
                   dtw_starts, wrote_executed>>

\* no scheduling function is under examination
NoCall ==
    [fn |-> "", stage |-> "none", reply |-> "", job_duration |-> None,
     deadline |-> None, prices |-> Returns("None"),
     out |-> Scheduling("", None, FALSE),
     current_time |-> None, energy_prices |-> "None", order |-> <<>>]

\* a call of _get_energy_prices returns or raises
GetEnergyPrices ==
    /\ call.fn = "_get_energy_prices"
    /\ call.stage = "call"
    /\ call' = [call EXCEPT !.stage = "done",
                            !.prices = get_energy_prices(call.reply)]
    /\ UNCHANGED api_vars
    /\ UNCHANGED <<now, mode>>
    /\ UNCHANGED cron_vars
    /\ UNCHANGED dtw_vars

\* a call of _determine_optimal_scheduling returns or raises
DetermineOptimalScheduling ==
    /\ call.fn = "_determine_optimal_scheduling"
    /\ call.stage = "call"
    /\ call' = [call EXCEPT !.stage = "done",
                            !.out = determine_optimal_scheduling(
                                call.reply, call.job_duration,
                                call.deadline, now)]
    /\ UNCHANGED api_vars
    /\ UNCHANGED <<now, mode>>
    /\ UNCHANGED cron_vars
    /\ UNCHANGED dtw_vars

\* a call of _find_optimal_start_time_with_data returns or raises, ep
\* having yielded its keys in one of the orders a dict may have
FindOptimalStartTimeWithData ==
    /\ call.fn = "_find_optimal_start_time_with_data"
    /\ call.stage = "call"
    /\ \E order \in IterationOrders(
            IF call.energy_prices \in DOMAIN PriceCurves
            THEN Candidates(call.current_time,
                            PriceCurves[call.energy_prices],
                            call.job_duration, call.deadline)
            ELSE {}) :
        call' = [call EXCEPT !.stage = "done",
                             !.order = order,
                             !.out = find_optimal_start_time_with_data(
                                 call.current_time, call.energy_prices,
                                 call.job_duration, call.deadline, order)]
    /\ UNCHANGED api_vars
    /\ UNCHANGED <<now, mode>>
    /\ UNCHANGED cron_vars
    /\ UNCHANGED dtw_vars

(* ------------------- the DTW service and the API ---------------------- *)

\* the values create_delay_tolerant_workload hands to the store, with the
\* column defaults: scope 'private', executed False, scheduled False
NewDtw(name, deadline, job_duration) ==
    [name |-> name, deadline |-> deadline, job_duration |-> job_duration,
     scope |-> "private", executed |-> FALSE, scheduled |-> FALSE]

\* the names the API creates and deletes workloads under
DtwNames == {"d1", "d2"}

\* the deadline strings of a request: one that is no date, and dates with
\* and without a UTC offset ("...T23:00:00" and "...T23:00:00Z"), by the
\* minute they denote
DeadlineStrings ==
    {[kind |-> "no date", minute |-> 0]}
    \cup {[kind |-> kind, minute |-> minute] :
            kind \in {"naive", "aware"}, minute \in 0 .. MaxTime + 1}

\* date_parser.parse: ValueError on a string that is no date; a datetime
\* otherwise, with tzinfo when the string carries an offset
date_parser_parse(deadline) ==
    [raised |-> IF deadline.kind = "no date" THEN "ValueError" ELSE "",
     minute |-> deadline.minute,
     tzinfo |-> deadline.kind = "aware"]

\* (mutant) the deadline only has to lie in the future
DeadlineInThePast(deadline, current_time) == deadline < current_time

\* "deadline < datetime.datetime.now() + datetime.timedelta(seconds=60)"
DeadlineTooEarly(deadline, current_time) == deadline < current_time + 1

\* lines 36-43 of create_delay_tolerant_workload: the exception they raise,
\* "" when the deadline is accepted.  Comparing a datetime that has tzinfo
\* with datetime.now(), which has none, is a TypeError.
ValidateDeadline(deadline, current_time) ==
    LET parsed == date_parser_parse(deadline)
    IN IF parsed.raised = "ValueError"
       THEN "InvalidModelException"
       ELSE IF parsed.tzinfo
       THEN "TypeError"
       ELSE IF DeadlineTooEarly(parsed.minute, current_time)
       THEN "InvalidModelException"
       ELSE ""

\* what may fail inside the transaction before the insert: the workflow
\* lookup, the validation of the input, the issue of the trust
BodyFaults ==
    {"", "get_workflow_definition", "validate_input", "add_trust_id"}

ExceptionOf(fault) ==
    CASE fault = "get_workflow_definition" -> "DBEntityNotFoundError"
      [] fault = "validate_input" -> "InputException"
      [] fault = "add_trust_id" -> "Unauthorized"
      [] OTHER -> ""

\* (mutant) the name column carries no unique constraint
NoDtwDuplicateEntry(name) == name \in {}

\* the unique constraint on the name of a DTWorkload row: save() raises
\* DBDuplicateEntry when a row of that name exists
DtwDuplicateEntry(name) == name \in DOMAIN dtws

\* the body of "with db_api.transaction():" in
\* create_delay_tolerant_workload: the exception it raises and the rows
\* its session holds when it ends
CreateBody(row, fault) ==
    IF fault # ""
    THEN [raised |-> ExceptionOf(fault), pending |-> {}]
    ELSE IF DtwDuplicateEntry(row.name)
    THEN [raised |-> "DBDuplicateEntryError", pending |-> {}]
    ELSE [raised |-> "", pending |-> {row}]

\* (mutant) commit_tx() sits in the finally clause
TransactionCommittingInFinally(body) ==
    [tx |-> <<"start_tx", "commit_tx", "end_tx">>,
     raised |-> body.raised,
     committed |-> body.pending]

\* db_api.transaction(): "try: start_tx(); yield; commit_tx()" and
\* "finally: end_tx()".  The calls made, the exception that leaves the
\* with statement and the rows committed; end_tx() drops what was not
\* committed.
transaction(body) ==
    [tx |-> IF body.raised = ""
            THEN <<"start_tx", "commit_tx", "end_tx">>
            ELSE <<"start_tx", "end_tx">>,
     raised |-> body.raised,
     committed |-> IF body.raised = "" THEN body.pending ELSE {}]

\* the status the API answers with
http_code(exception) ==
    CASE exception = "" -> 201
      [] exception = "DBDuplicateEntryError" -> 409
      [] exception = "DBEntityNotFoundError" -> 404
      [] exception \in {"InvalidModelException", "InputException"} -> 400
      [] OTHER -> 500

\* no call of the API yet
NoRequest ==
    [fn |-> "", name |-> "", deadline |-> [kind |-> "", minute |-> 0],
     fault |-> "", current_time |-> 0, raised |-> "", tx |-> <<>>,
     status |-> 0]

\* the table with the rows added: the lookup by name keeps answering with
\* the row it had
InsertRows(rows) ==
    [n \in DOMAIN dtws \cup {row.name : row \in rows} |->
        IF n \in DOMAIN dtws
        THEN dtws[n]
        ELSE CHOOSE row \in rows : row.name = n]

\* POST /v2/delay_tolerant_workload: dtw.create_delay_tolerant_workload
CreateDelayTolerantWorkload ==
    /\ \E name \in DtwNames, deadline \in DeadlineStrings,
          fault \in BodyFaults :
        LET invalid == ValidateDeadline(deadline, now)
            done == transaction(CreateBody(
                        NewDtw(name, deadline.minute, 1), fault))
            request == [NoRequest EXCEPT
                            !.fn = "create_delay_tolerant_workload",
                            !.name = name, !.deadline = deadline,
                            !.current_time = now]
        IN IF invalid # ""
           THEN /\ api' = [request EXCEPT !.raised = invalid,
                                          !.status = http_code(invalid)]
                /\ UNCHANGED <<dtws, dtw_rows>>
           ELSE /\ api' = [request EXCEPT !.fault = fault,
                                          !.raised = done.raised,
                                          !.tx = done.tx,
                                          !.status = http_code(done.raised)]
                /\ dtws' = InsertRows(done.committed)
                /\ dtw_rows' = dtw_rows (+)
                        SetToBag({row.name : row \in done.committed})
    /\ UNCHANGED call
    /\ UNCHANGED <<now, mode, next_id, d, raised, tick, dtw_starts,
                   wrote_executed>>
    /\ UNCHANGED cron_vars

\* DELETE /v2/delay_tolerant_workload/<name>:
\* db_api.delete_delay_tolerant_workload deletes the row found by name by
\* its id
DeleteDelayTolerantWorkload ==
    /\ \E name \in DtwNames :
        LET request == [NoRequest EXCEPT
                            !.fn = "delete_delay_tolerant_workload",
                            !.name = name, !.current_time = now]
        IN IF name \notin DOMAIN dtws
           THEN /\ api' = [request EXCEPT
                            !.raised = "DBEntityNotFoundError",
                            !.status = http_code("DBEntityNotFoundError")]
                /\ UNCHANGED <<dtws, dtw_rows>>
           ELSE /\ api' = [request EXCEPT !.status = 204]
                /\ dtw_rows' = dtw_rows (-) SetToBag({name})
                /\ dtws' = [n \in DOMAIN dtws \ {m \in {name} :
                                CopiesIn(name, dtw_rows) = 1} |-> dtws[n]]
    /\ UNCHANGED call
    /\ UNCHANGED <<now, mode, next_id, d, raised, tick, dtw_starts,
                   wrote_executed>>
    /\ UNCHANGED cron_vars

(* ------------------------------ initial ------------------------------- *)

\* a recurring cron trigger made by a user before the runners start
UserTrigger(p, c) ==
    [id |-> 1, name |-> "t1", pattern |-> p,
     next_execution_time |-> 0, remaining_executions |-> c]

\* a one-shot cron trigger (no pattern, count 1)
OneShotTrigger ==
    [id |-> 2, name |-> "t2", pattern |-> None,
     next_execution_time |-> 1, remaining_executions |-> 1]

\* the initial stores: "t1" alone with a period and a count (or none), or
\* an unbounded "t1" beside the one-shot "t2"
UserTriggerStores ==
    {{UserTrigger(p, c)} : p \in {1, MaxPeriod}, c \in {None, 1, MaxCount}}
    \cup {{UserTrigger(1, None), OneShotTrigger}}

InitRunners ==
    /\ pc = [r \in Runners |-> "idle"]
    /\ todo = [r \in Runners |-> <<>>]
    /\ t = [r \in Runners |-> NoTrigger]
    /\ d = [r \in Runners |-> NoDtw]
    /\ found = [r \in Runners |-> {}]
    /\ ctx = [r \in Runners |-> ""]
    /\ raised = [r \in Runners |-> ""]
    /\ tick = [r \in Runners |->
                [mode |-> "", unexecuted |-> {}, policy |-> ""]]
    /\ returned = {}
    /\ failed = {}
    /\ cron_starts = EmptyBag
    /\ dtw_starts = EmptyBag
    /\ wrote_executed = {}

\* the cron subsystem alone: no delay tolerant workload exists
InitCron ==
    /\ now = 0
    /\ mode = "immediately"
    /\ cron_triggers \in UserTriggerStores
    /\ next_id = FirstCreatedId
    /\ dtws = <<>>
    /\ dtw_rows = SetToBag(DOMAIN dtws)
    /\ api = NoRequest
    /\ InitRunners
    /\ call = NoCall

NextCron ==
    \/ Clock
    \/ \E r \in Runners : CronList(r)
    \/ \E r \in Runners : AdvGet(r)
    \/ \E r \in Runners : AdvWrite(r)
    \/ \E r \in Runners : CronStart(r)

SpecCron == InitCron /\ [][NextCron]_vars

\* the cron task with calls that raise
NextCronFaults ==
    \/ NextCron
    \/ \E r \in Runners : AdvanceRaises(r)
    \/ \E r \in Runners : CronStartRaises(r)

SpecCronFaults == InitCron /\ [][NextCronFaults]_vars

\* CONF.engine.dtw_scheduler_mode: the three policies and an unknown value
Modes == {"immediately", "last-minute", "energy-aware", "ERROR"}

\* (deadline, job_duration) of the workloads: a short job, a job without
\* duration, a long-term job
DtwInputs ==
    {<<2, 1>>, <<2, None>>,
     <<MINIMUM_LONG_TERM_WORKLOAD + 41, MINIMUM_LONG_TERM_WORKLOAD + 40>>}

\* the initial DTW tables: "d1" alone or "d1" and "d2"
DtwStores ==
    {[n \in {"d1"} |-> NewDtw(n, i[1], i[2])] : i \in DtwInputs}
    \cup {[n \in {"d1", "d2"} |->
            IF n = "d1" THEN NewDtw(n, i[1], i[2]) ELSE NewDtw(n, j[1], j[2])] :
          i \in DtwInputs, j \in DtwInputs}

Init ==
    /\ now = 0
    /\ mode \in Modes
    /\ cron_triggers = {}
    /\ next_id = FirstCreatedId
    /\ dtws \in DtwStores
    /\ dtw_rows = SetToBag(DOMAIN dtws)
    /\ api = NoRequest
    /\ InitRunners
    /\ call = NoCall

Next ==
    \/ Clock
    \/ \E r \in Runners : CronList(r)
    \/ \E r \in Runners : AdvGet(r)
    \/ \E r \in Runners : AdvWrite(r)
    \/ \E r \in Runners : CronStart(r)
    \/ \E r \in Runners : DtwRaiseAttributeError(r)
    \/ \E r \in Runners : LmList(r)
    \/ \E r \in Runners : LmUpdate(r)
    \/ \E r \in Runners : LmCreate(r)
    \/ \E r \in Runners : EaList(r)
    \/ \E r \in Runners : EaUpdate(r)
    \/ \E r \in Runners : EaStart(r)
    \/ \E r \in Runners : EaShort(r)

Spec == Init /\ [][Next]_vars

\* the DTW task alone: process_cron_triggers_v2 never runs
NextDtw ==
    \/ Clock
    \/ \E r \in Runners : DtwRaiseAttributeError(r)
    \/ \E r \in Runners : LmList(r)
    \/ \E r \in Runners : LmUpdate(r)
    \/ \E r \in Runners : LmCreate(r)
    \/ \E r \in Runners : EaList(r)
    \/ \E r \in Runners : EaUpdate(r)
    \/ \E r \in Runners : EaStart(r)
    \/ \E r \in Runners : EaShort(r)

SpecDtw == Init /\ [][NextDtw]_vars

\* the operator repairs an unknown dtw_scheduler_mode: the runners read
\* CONF.engine.dtw_scheduler_mode anew at every tick
Reconfigure ==
    /\ mode \notin {"immediately", "last-minute", "energy-aware"}
    /\ mode' \in {"immediately", "last-minute", "energy-aware"}
    /\ UNCHANGED call
    /\ UNCHANGED api_vars
    /\ UNCHANGED now
    /\ UNCHANGED cron_vars
    /\ UNCHANGED dtw_vars

\* the DTW task under a configuration that starts out wrong
InitConf == Init /\ mode = "ERROR"

NextConf == NextDtw \/ Reconfigure

SpecConf == InitConf /\ [][NextConf]_vars

\* the API alone: workloads are created and deleted while time passes
InitApi ==
    /\ now = 0
    /\ mode = "energy-aware"
    /\ cron_triggers = {}
    /\ next_id = FirstCreatedId
    /\ dtws = <<>>
    /\ dtw_rows = SetToBag(DOMAIN dtws)
    /\ api = NoRequest
    /\ InitRunners
    /\ call = NoCall

NextApi ==
    \/ Clock
    \/ CreateDelayTolerantWorkload
    \/ DeleteDelayTolerantWorkload

SpecApi == InitApi /\ [][NextApi]_vars

\* job durations and deadlines (minutes) the scheduling functions are
\* called with; None as in the call _determine_optimal_scheduling(None, None)
CallDurations == {None, 0, 1, MINIMUM_LONG_TERM_WORKLOAD}
CallDeadlines == {None, 0, 2, MINIMUM_LONG_TERM_WORKLOAD + 1}

\* the calls of the two scheduling functions
Calls ==
    {[NoCall EXCEPT !.fn = "_get_energy_prices", !.stage = "call",
                    !.reply = reply] : reply \in EndpointReplies}
    \cup {[NoCall EXCEPT !.fn = "_determine_optimal_scheduling",
                         !.stage = "call", !.reply = reply,
                         !.job_duration = job_duration,
                         !.deadline = deadline] :
            reply \in EndpointReplies, job_duration \in CallDurations,
            deadline \in CallDeadlines}

\* the scheduling functions alone, called at any time
InitPrices ==
    /\ now \in 0 .. MaxTime
    /\ mode = "energy-aware"
    /\ cron_triggers = {}
    /\ next_id = FirstCreatedId
    /\ dtws = <<>>
    /\ dtw_rows = SetToBag(DOMAIN dtws)
    /\ api = NoRequest
    /\ InitRunners
    /\ call \in Calls

NextPrices == GetEnergyPrices \/ DetermineOptimalScheduling

SpecPrices == InitPrices /\ [][NextPrices]_vars

\* the times of day, job durations and deadlines (minutes after today's
\* midnight) the solver is called with: 07:43 and 15:43 as in
\* test_find_optimal_start_time_with_data and 21:00; jobs of no whole hour,
\* one hour, 75 and 150 minutes and without duration; deadlines today at
\* 15:00 and 23:00, tomorrow at 01:30, and past the last known price
SolverTimes == {7 * Hour + 43, 15 * Hour + 43, 21 * Hour}
SolverDurations == {None, 30, 60, 75, 150}
SolverDeadlines ==
    {15 * Hour, 23 * Hour, Day + 90, FinalTime + Hour, FinalTime + 3 * Hour}

\* the calls of the solver
SolverCalls ==
    {[NoCall EXCEPT !.fn = "_find_optimal_start_time_with_data",
                    !.stage = "call",
                    !.current_time = current_time,
                    !.energy_prices = energy_prices,
                    !.job_duration = job_duration,
                    !.deadline = deadline] :
        current_time \in SolverTimes,
        energy_prices \in DOMAIN PriceCurves \cup {"None"},
        job_duration \in SolverDurations,
        deadline \in SolverDeadlines}

\* the solver alone
InitSolver ==
    /\ now = 0
    /\ mode = "energy-aware"
    /\ cron_triggers = {}
    /\ next_id = FirstCreatedId
    /\ dtws = <<>>
    /\ dtw_rows = SetToBag(DOMAIN dtws)
    /\ api = NoRequest
    /\ InitRunners
    /\ call \in SolverCalls

NextSolver == FindOptimalStartTimeWithData

SpecSolver == InitSolver /\ [][NextSolver]_vars

(* ------------------- claims on the cron subsystem --------------------- *)

\* the advances made with the listed state (id, next_execution_time)
AdvancesOf(id, next) ==
    {rec \in returned : rec.id = id /\ rec.next = next}

\* C1: for every cron trigger and every pre-advance next_execution_time,
\* at most one of the advance_cron_trigger calls made by runners that
\* listed the trigger in that state returns True.
C1_AtMostOneAdvanceReturnsTrue ==
    \A rec1, rec2 \in returned :
        (/\ rec1.id = rec2.id
         /\ rec1.next = rec2.next
         /\ rec1.result
         /\ rec2.result) => rec1 = rec2

\* C1 witness: two runners advanced the same listed state; one won and the
\* other lost the compare-and-swap on next_execution_time.
C1_Witness ==
    \E rec1, rec2 \in returned :
        /\ rec1.id = rec2.id
        /\ rec1.next = rec2.next
        /\ rec1.r # rec2.r
        /\ rec1.result
        /\ rec2.how = "no_rows_matched"

\* C2: when exactly two runners have advanced a trigger from the same
\* pre-state (no other advance of that state), exactly one of the two calls
\* returned True and the other False, on the delete path and on the
\* conditional-update path alike.
C2_ExactlyOneOfTwoReturnsTrue ==
    \A rec1, rec2 \in returned :
        (/\ rec1.id = rec2.id
         /\ rec1.next = rec2.next
         /\ rec1.r # rec2.r
         /\ {rec.r : rec \in AdvancesOf(rec1.id, rec1.next)}
                = {rec1.r, rec2.r})
        => (rec1.result # rec2.result)

\* C2 witness: a pair of runners raced on the delete path and a pair raced
\* on the conditional-update path.
C2_Witness ==
    /\ \E rec1, rec2 \in returned :
        /\ rec1.id = rec2.id /\ rec1.next = rec2.next /\ rec1.r # rec2.r
        /\ rec1.how = "deleted"
        /\ rec2.how = "rowcount_0"
    /\ \E rec1, rec2 \in returned :
        /\ rec1.id = rec2.id /\ rec1.next = rec2.next /\ rec1.r # rec2.r
        /\ rec1.how = "updated"
        /\ rec2.how \in {"no_rows_matched", "not_found"}

\* C3: start_workflow is invoked at most once per firing (trigger id and
\* pre-advance next_execution_time) over all runners, and a runner invokes
\* it only after its own advance_cron_trigger returned True.
C3_StartOncePerFiringAfterOwnAdvance ==
    /\ \A r \in Runners :
        pc[r] = "cron_start" =>
            \E rec \in AdvancesOf(t[r].id, t[r].next_execution_time) :
                rec.r = r /\ rec.result
    /\ \A k \in BagToSet(cron_starts) :
        /\ CopiesIn(k, cron_starts) = 1
        /\ \E rec \in AdvancesOf(k[2], k[3]) : rec.r = k[1] /\ rec.result
    /\ \A k1, k2 \in BagToSet(cron_starts) :
        (k1[2] = k2[2] /\ k1[3] = k2[3]) => k1 = k2

\* C3 witness: a workflow was started for a firing that another runner
\* also tried to advance, and lost.
C3_Witness ==
    \E k \in BagToSet(cron_starts) :
        \E rec \in AdvancesOf(k[2], k[3]) : rec.r # k[1] /\ ~rec.result

C5_NoStoredTriggerWithZeroRemaining ==
    \A row \in cron_triggers : row.remaining_executions # 0

\* C5 witness: a counted trigger was advanced down to its last execution
\* and then deleted by the advance that brought the count to 0.
C5_Witness ==
    \E rec1, rec2 \in returned :
        /\ rec1.id = rec2.id
        /\ rec1.how = "updated"
        /\ rec2.how = "deleted"
        /\ \A row \in cron_triggers : row.id # rec1.id

\* C6: the stored next_execution_time of a cron trigger never decreases
\* from one state to the next while the trigger exists.
C6_NextExecutionTimeNeverDecreases ==
    [][\A row \in cron_triggers : \A row2 \in cron_triggers' :
        row.id = row2.id
        => row2.next_execution_time >= row.next_execution_time]_vars

\* C6 witness: a trigger has been advanced twice and a runner still holds
\* the state listed before the first of these advances.
C6_Witness ==
    \E rec1, rec2 \in returned : \E r \in Runners :
        /\ rec1.id = rec2.id
        /\ rec1.how = "updated" /\ rec2.how = "updated"
        /\ rec1.next < rec2.next
        /\ pc[r] \in {"adv_get", "adv_write"}
        /\ t[r].id = rec1.id
        /\ t[r].next_execution_time = rec1.next

(* ------------------- claims about the DTW policies -------------------- *)

\* StartWorkflow invocations made for the workload n, over all runners
StartsFor(n) ==
    LET Sum[S \in SUBSET Runners] ==
            IF S = {} THEN 0
            ELSE LET r == CHOOSE x \in S : TRUE
                 IN CopiesIn(<<r, n>>, dtw_starts) + Sum[S \ {r}]
    IN Sum[Runners]

\* C7: in mode 'immediately', every workload that was unexecuted when a
\* tick of process_delay_tolerant_workload started is executed after the
\* tick, StartWorkflow was invoked for it exactly once, and the
\* unscheduled-set query no longer returns it.
C7_ImmediateTickExecutesAndStartsOnce ==
    \A r \in Runners :
        tick[r].mode = "immediately" =>
            \A n \in tick[r].unexecuted :
                /\ dtws[n].executed
                /\ StartsFor(n) = 1
                /\ n \notin UnexecutedNames

\* C8 (as stated): in every reachable state a workload with executed = true
\* has had exactly one StartWorkflow invocation.
C8_ExecutedMeansExactlyOneStart ==
    \A n \in DOMAIN dtws : dtws[n].executed => StartsFor(n) = 1

\* C8 (amended): a workload is executed only if some runner wrote the flag;
\* every runner that wrote executed = true for a workload has invoked
\* StartWorkflow for it exactly once, or is between its write and its call
\* and has not invoked it yet; a runner that did not write the flag has
\* made no invocation for the workload.
C8_EachFlagWriterStartsOnce ==
    \A n \in DOMAIN dtws :
        /\ dtws[n].executed => \E r \in Runners : <<r, n>> \in wrote_executed
        /\ \A r \in Runners :
            LET k == CopiesIn(<<r, n>>, dtw_starts)
            IN IF <<r, n>> \in wrote_executed
               THEN /\ dtws[n].executed
                    /\ IF pc[r] = "ea_start" /\ d[r].name = n
                       THEN k = 0 ELSE k = 1
               ELSE k = 0

\* two runners both wrote the flag of one workload and both invoked
\* StartWorkflow for it
C8_Witness ==
    \E n \in DOMAIN dtws : \E r1, r2 \in Runners :
        /\ r1 # r2
        /\ dtws[n].executed
        /\ {<<r1, n>>, <<r2, n>>} \subseteq wrote_executed
        /\ CopiesIn(<<r1, n>>, dtw_starts) = 1
        /\ CopiesIn(<<r2, n>>, dtw_starts) = 1
        /\ pc[r1] = "idle" /\ pc[r2] = "idle"

\* C9: an Immediate tick writes the executed flag of every workload it
\* sees (before it calls StartWorkflow), lets no failure out of the tick,
\* and leaves nothing of what it saw for a later tick to dispatch again.
C9_ImmediateTickFlagsFirstAndContainsFailure ==
    \A r \in Runners :
        (tick[r].mode = "immediately" /\ tick[r].unexecuted # {}) =>
            /\ raised[r] = ""
            /\ \A n \in tick[r].unexecuted :
                /\ <<r, n>> \in wrote_executed
                /\ dtws[n] \notin get_unscheduled_delay_tolerant_workload

\* C10: in mode 'last-minute', when a tick is through with a workload d it
\* listed as unscheduled, a cron trigger named d.name exists with
\* next_execution_time = d.deadline - d.job_duration minutes and
\* remaining_executions = 1.
C10_LastMinuteTriggerExists ==
    [][\A r \in Runners :
        (pc[r] = "lm_create" /\ pc'[r] # "lm_create" /\ ~d[r].scheduled) =>
            \E row \in cron_triggers' :
                /\ row.name = d[r].name
                /\ row.next_execution_time = d[r].deadline - d[r].job_duration
                /\ row.remaining_executions = 1]_vars

\* a step of runner r inside _dtw_last_minute_scheduling
LastMinuteStep(r) ==
    /\ pc'[r] # pc[r]
    /\ \/ pc[r] \in {"lm_update", "lm_create"}
       \/ pc'[r] \in {"lm_update", "lm_create"}

\* C11: no step of a LastMinute tick changes the executed flag of any
\* workload or invokes StartWorkflow, so the unscheduled set has the same
\* members after the step as before it.
C11_LastMinuteLeavesExecutedAndStarts ==
    [][\A r \in Runners :
        LastMinuteStep(r) =>
            /\ \A n \in DOMAIN dtws : dtws'[n].executed = dtws[n].executed
            /\ dtw_starts' = dtw_starts
            /\ cron_starts' = cron_starts
            /\ UnexecutedNames' = UnexecutedNames]_vars

\* a LastMinute tick has returned normally after it flagged a workload and
\* created its trigger; the workload is still in the unscheduled set
C11_Witness ==
    \E r \in Runners : \E n \in tick[r].unexecuted :
        /\ tick[r].mode = "last-minute"
        /\ pc[r] = "idle"
        /\ raised[r] = ""
        /\ dtws[n].scheduled
        /\ DuplicateEntry(n)
        /\ n \in UnexecutedNames
        /\ dtw_starts = EmptyBag

C13_FlagsNeverRevert ==
    [][\A n \in DOMAIN dtws :
        /\ n \in DOMAIN dtws'
        /\ dtws[n].executed => dtws'[n] = dtws[n]
        /\ dtws[n].scheduled => dtws'[n].scheduled]_vars

\* a runner that listed a workload before another runner executed it
\* writes the flag of the executed workload once more
C13_Witness ==
    \E r \in Runners :
        /\ pc[r] = "ea_start"
        /\ d[r].name \in DOMAIN dtws
        /\ ~d[r].executed
        /\ \E r2 \in Runners \ {r} : <<r2, d[r].name>> \in wrote_executed
        /\ <<r, d[r].name>> \in wrote_executed


\* C14: when the one-shot trigger of a workload the last-minute policy
\* deferred fires and the cron loop starts the workflow, the workload is
\* marked executed = true.
C14_FiredTriggerMarksExecuted ==
    [][\A r \in Runners :
        (/\ mode = "last-minute"
         /\ pc[r] = "cron_start"
         /\ pc'[r] # "cron_start"
         /\ t[r].name \in DOMAIN dtws) =>
            dtws'[t[r].name].executed]_vars


\* the positions of a runner that handles one workload of its list
Handling == {"lm_update", "lm_create", "ea_update", "ea_start", "ea_short"}

\* C15: in the policy loops an exception raised while one workload is
\* handled is caught and never aborts the loop: no exception leaves the
\* tick, and every other workload of the list is still handled in the tick.
C15_PolicyLoopIsABulkhead ==
    [][\A r \in Runners :
        pc[r] \in Handling =>
            /\ raised'[r] = ""
            /\ todo[r] # <<>> => pc'[r] \in Handling]_vars


\* C16: the context of a runner is that of the workload it handles, and it
\* is cleared when the workload is left on any path: a runner that is not
\* handling a workload or a trigger has no context.
C16_ContextSetAndCleared ==
    \A r \in Runners :
        /\ pc[r] \in Handling => ctx[r] = d[r].name
        /\ pc[r] = "idle" => ctx[r] = ""


\* C17: in mode 'energy-aware' a workload with job_duration > 360 is
\* handled as Immediate (executed set and StartWorkflow invoked in the
\* tick, no trigger created), and a workload with job_duration <= 360 is
\* not started in the tick and gets a one-shot trigger of its name at the
\* time _determine_optimal_scheduling returned.
C17_EnergyAwareBranches ==
    [][\A r \in Runners :
        /\ (pc[r] = "ea_start" /\ pc'[r] # "ea_start") =>
            /\ d[r].job_duration > MINIMUM_LONG_TERM_WORKLOAD
            /\ dtws'[d[r].name].executed
            /\ dtw_starts' = dtw_starts (+) SetToBag({<<r, d[r].name>>})
            /\ cron_triggers' = cron_triggers
        /\ (pc[r] = "ea_short" /\ pc'[r] # "ea_short") =>
            /\ d[r].job_duration <= MINIMUM_LONG_TERM_WORKLOAD
            /\ dtw_starts' = dtw_starts
            /\ dtws' = dtws
            /\ \E row \in cron_triggers' : \E reply \in EndpointReplies :
                /\ row.name = d[r].name
                /\ row.remaining_executions = 1
                /\ row.next_execution_time =
                       determine_optimal_scheduling(reply, d[r].job_duration,
                            d[r].deadline, now).value]_vars


\* C18: whenever a policy defers a workload by inserting a one-shot cron
\* trigger of its name, the same tick also sets the scheduled flag of the
\* workload: when the runner has inserted the trigger, the flag is set.
C18_DeferredIsFlaggedScheduled ==
    [][\A r \in Runners :
        (/\ pc[r] \in {"lm_create", "ea_short"}
         /\ pc'[r] # pc[r]
         /\ cron_triggers' # cron_triggers) =>
            dtws'[d[r].name].scheduled]_vars


(* ---------------- claims about the scheduling functions --------------- *)

\* the price endpoint gives _get_energy_prices nothing: None
OracleReturnsNil(reply) == get_energy_prices(reply) = Returns("None")

\* C19: when the price oracle returns nil, _determine_optimal_scheduling
\* returns now + 2 minutes for every job_duration and deadline, the null
\* ones included, and does not call the solver.
C19_NilPricesGiveNowPlusTwo ==
    (/\ call.fn = "_determine_optimal_scheduling"
     /\ call.stage = "done"
     /\ OracleReturnsNil(call.reply)) =>
        call.out = Scheduling("", now + 2, FALSE)

\* the call _determine_optimal_scheduling(None, None) has returned with
\* the endpoint unreachable
C19_Witness ==
    /\ call.fn = "_determine_optimal_scheduling"
    /\ call.stage = "done"
    /\ call.reply = "ConnectionError"
    /\ call.job_duration = None
    /\ call.deadline = None
    /\ now > 0
    /\ call.out.value = now + 2


\* the three failure kinds of the price endpoint: no connection, a non-2xx
\* response (with or without a JSON body), a malformed JSON body
EndpointFailures ==
    {"ConnectionError", "non_2xx_no_json", "non_2xx_json", "malformed_body"}

\* C20: for each failure kind of the price endpoint _get_energy_prices
\* returns nil and raises nothing to its caller.
C20_EndpointFailuresGiveNil ==
    (/\ call.fn = "_get_energy_prices"
     /\ call.stage = "done"
     /\ call.reply \in EndpointFailures) =>
        call.prices = Returns("None")


(* ------------------- claims about the configuration ------------------- *)

\* C21: a tick of process_delay_tolerant_workload under a
\* dtw_scheduler_mode outside the three policies raises (AttributeError),
\* changes no workload, no trigger and nothing of the runner a later tick
\* depends on; the runner stays ready for its next tick.
C21_UnknownModeRaisesAndChangesNothing ==
    [][\A r \in Runners :
        (/\ mode \notin {"immediately", "last-minute", "energy-aware"}
         /\ pc[r] = "idle"
         /\ tick'[r] # tick[r] \/ raised'[r] # raised[r]) =>
            /\ raised'[r] = "AttributeError"
            /\ tick'[r].policy = ""
            /\ dtws' = dtws
            /\ cron_triggers' = cron_triggers
            /\ next_id' = next_id
            /\ pc' = pc /\ todo' = todo /\ d' = d /\ ctx' = ctx
            /\ dtw_starts' = dtw_starts
            /\ mode' = mode]_vars

\* after the mode was repaired a runner has run a whole last-minute tick
\* that created a trigger, while the other runner has not ticked since its
\* tick under the unknown mode raised
C21_Witness ==
    \E r1, r2 \in Runners : \E n \in tick[r1].unexecuted :
        /\ tick[r2].mode = "ERROR"
        /\ raised[r2] = "AttributeError"
        /\ tick[r1].mode = "last-minute"
        /\ raised[r1] = ""
        /\ pc[r1] = "idle"
        /\ dtws[n].scheduled
        /\ DuplicateEntry(n)


\* C22: each tick of process_delay_tolerant_workload runs exactly the
\* policy body dtw_scheduler_mode names, whatever the legacy key
\* dtw_scheduler_last_minute holds, and none of the other two: only a
\* last-minute tick is inside the last-minute body or writes a scheduled
\* flag, only an energy-aware tick is inside the energy-aware body, writes
\* an executed flag or starts a workflow.
C22_TickRunsThePolicyOfTheMode ==
    \A r \in Runners :
        /\ tick[r].policy =
            (CASE tick[r].mode = "immediately" -> "_dtw_schedule_immediately"
               [] tick[r].mode = "last-minute" -> "_dtw_last_minute_scheduling"
               [] tick[r].mode = "energy-aware" -> "_dtw_energy_aware_scheduling"
               [] OTHER -> "")
        /\ pc[r] \in {"lm_update", "lm_create"} =>
                tick[r].mode = "last-minute"
        /\ pc[r] \in {"ea_update", "ea_start", "ea_short"} =>
                tick[r].mode = "energy-aware"
        /\ \A n \in DOMAIN dtws :
            /\ dtws[n].scheduled => mode = "last-minute"
            /\ (<<r, n>> \in wrote_executed
                    \/ CopiesIn(<<r, n>>, dtw_starts) > 0) =>
                tick[r].mode = "energy-aware"

\* an energy-aware tick has returned after it executed a long-term
\* workload, and no workload was flagged scheduled
C22_Witness ==
    \E r \in Runners : \E n \in DOMAIN dtws :
        /\ tick[r].policy = "_dtw_energy_aware_scheduling"
        /\ pc[r] = "idle"
        /\ CopiesIn(<<r, n>>, dtw_starts) = 1
        /\ \A n2 \in DOMAIN dtws : ~dtws[n2].scheduled


(* ---------------------- claims about the solver ----------------------- *)

\* a call of the solver on a curve with datetime keys has returned
SolverReturned ==
    /\ call.fn = "_find_optimal_start_time_with_data"
    /\ call.stage = "done"
    /\ call.energy_prices \in DOMAIN PriceCurves
    /\ call.out.raised = ""

\* the eligible hours of a call: after the current hour and not later
\* than the hour of deadline - duration
Eligible ==
    {k \in DOMAIN MergedPrices(PriceCurves[call.energy_prices]) :
        /\ k > call.current_time - (call.current_time % Hour)
        /\ k <= (call.deadline - call.job_duration)
                    - ((call.deadline - call.job_duration) % Hour)}

\* the cost of a start at an eligible hour: the sum of the reference
\* prices of the D = floor(job_duration / 60) hours from it
CostOf(start_time) ==
    JobCost(MergedPrices(PriceCurves[call.energy_prices]), start_time,
            call.job_duration)

\* C23: _find_optimal_start_time_with_data returns an eligible hour whose
\* cost is minimal over all eligible hours; on the documented curve it
\* returns 21:00 for (15:43, 75 min, deadline 23:00) and 15:00 for
\* (07:43, 150 min, deadline 23:00).
C23_ReturnsEligibleHourOfMinimalCost ==
    (SolverReturned /\ Eligible # {}) =>
        /\ call.out.value \in Eligible
        /\ \A k \in Eligible : CostOf(call.out.value) <= CostOf(k)
        /\ (/\ call.energy_prices = "ENERGY_PRICES"
            /\ call.current_time = 15 * Hour + 43
            /\ call.job_duration = 75
            /\ call.deadline = 23 * Hour) => call.out.value = 21 * Hour
        /\ (/\ call.energy_prices = "ENERGY_PRICES"
            /\ call.current_time = 7 * Hour + 43
            /\ call.job_duration = 150
            /\ call.deadline = 23 * Hour) => call.out.value = 15 * Hour


\* C24: every start time the solver returns is hour-aligned, not before
\* current_time, and leaves the D = floor(job_duration / 60) whole hours
\* of the job before the deadline.
C24_ReturnedStartIsAlignedAndInWindow ==
    (SolverReturned /\ call.out.value # None) =>
        /\ call.out.value % Hour = 0
        /\ call.out.value >= call.current_time
        /\ call.out.value + (call.job_duration \div 60) * Hour
                <= call.deadline

\* the first documented call has returned 21:00, ep having yielded a
\* later hour first
C24_Witness ==
    /\ SolverReturned
    /\ call.energy_prices = "ENERGY_PRICES"
    /\ call.current_time = 15 * Hour + 43
    /\ call.job_duration = 75
    /\ call.deadline = 23 * Hour
    /\ call.order[1] > call.order[2]
    /\ call.out.value = 21 * Hour

\* C25: the solver is deterministic: a call returns the same start time
\* in whatever order ep yields its keys, also when several hours tie for
\* the minimum cost and when job_duration < 60 makes every cost 0.
C25_ResultIndependentOfIterationOrder ==
    SolverReturned =>
        \A order \in IterationOrders(
                Candidates(call.current_time,
                           PriceCurves[call.energy_prices],
                           call.job_duration, call.deadline)) :
            find_optimal_start_time_with_data(
                call.current_time, call.energy_prices, call.job_duration,
                call.deadline, order) = call.out


(* ------------------ claims about the DTW service ---------------------- *)

\* the step is a call of create_delay_tolerant_workload
CreateStep ==
    /\ api' # api
    /\ api'.fn = "create_delay_tolerant_workload"

DeadlineRejectable ==
    \/ api'.deadline.kind = "no date"
    \/ api'.deadline.minute < now + 1

\* C27: create_delay_tolerant_workload with an unparseable deadline or
\* with deadline < now + 60 s fails with InvalidModelException before any
\* transaction is opened, and the DTW store is unchanged.
C27_BadDeadlineIsInvalidModelBeforeTransaction ==
    [][(CreateStep /\ DeadlineRejectable) =>
        /\ api'.raised = "InvalidModelException"
        /\ api'.tx = <<>>
        /\ dtws' = dtws
        /\ dtw_rows' = dtw_rows]_vars

C29_NamesStayUniqueAndDuplicateCreateFails ==
    [][/\ \A n \in DtwNames : CopiesIn(n, dtw_rows') <= 1
       /\ BagToSet(dtw_rows') = DOMAIN dtws'
       /\ (/\ CreateStep
           /\ api'.name \in DOMAIN dtws
           /\ ValidateDeadline(api'.deadline, now) = ""
           /\ api'.fault = "") =>
                /\ api'.raised = "DBDuplicateEntryError"
                /\ api'.status = 409
                /\ dtws' = dtws
                /\ dtw_rows' = dtw_rows]_vars

\* a create of a stored name was refused, some time after the start; the
\* stored workload keeps the deadline it was created with
C29_Witness ==
    /\ api.fn = "create_delay_tolerant_workload"
    /\ api.raised = "DBDuplicateEntryError"
    /\ api.status = 409
    /\ api.name \in DOMAIN dtws
    /\ dtws[api.name].deadline > 1
    /\ dtws[api.name].deadline # api.deadline.minute
    /\ CopiesIn(api.name, dtw_rows) = 1


(* ---------------- claims about the order of the cron loop ------------- *)

\* the runner is inside the loop of process_cron_triggers_v2
InCronLoop(r) == pc[r] \in {"adv_get", "adv_write", "cron_start"}

\* C30: the cron loop only processes triggers whose next_execution_time is
\* strictly before the current time, and within a tick in ascending order
\* of next_execution_time: the trigger in hand is due and not later than
\* any trigger still to come; no workflow is started by a trigger before
\* that trigger's next_execution_time.
C30_CronLoopTakesDueTriggersInAscendingOrder ==
    /\ \A r \in Runners : InCronLoop(r) =>
        /\ t[r].next_execution_time < now
        /\ \A i \in 1 .. Len(todo[r]) :
            /\ todo[r][i].next_execution_time < now
            /\ t[r].next_execution_time <= todo[r][i].next_execution_time
            /\ \A j \in 1 .. Len(todo[r]) :
                i < j => todo[r][i].next_execution_time
                            <= todo[r][j].next_execution_time
    /\ \A start \in BagToSet(cron_starts) : start[3] < now

\* a runner has started the workflow of the earlier of two due triggers
\* of different times and has the later one in hand
C30_Witness ==
    \E r \in Runners : \E start \in BagToSet(cron_starts) :
        /\ InCronLoop(r)
        /\ start[1] = r
        /\ start[2] # t[r].id
        /\ start[3] < t[r].next_execution_time


(* ------------- claims about races, frames and repetition -------------- *)

\* C31: with two runners in mode 'immediately' nothing prevents the second
\* dispatch: when the ticks of two runners both found the same workload
\* unexecuted, both runners invoke StartWorkflow for it (the executed flag
\* is written without a condition).
C31_BothReadersDispatchTheSameWorkload ==
    \A r1, r2 \in Runners : \A n \in DOMAIN dtws :
        (/\ r1 # r2
         /\ tick[r1].mode = "immediately" /\ tick[r2].mode = "immediately"
         /\ n \in tick[r1].unexecuted /\ n \in tick[r2].unexecuted
         /\ pc[r1] = "idle" /\ pc[r2] = "idle") =>
            /\ CopiesIn(<<r1, n>>, dtw_starts) >= 1
            /\ CopiesIn(<<r2, n>>, dtw_starts) >= 1


\* C32: advance_cron_trigger(t) deletes or updates only the stored row
\* whose id equals t.id: every row of another id is left as it is, also a
\* row of the same name created after the listed one was deleted, and
\* when no row of t.id is left the advance returns False (no start).
C32_AdvanceTouchesOnlyTheListedRow ==
    [][\A r \in Runners :
        (pc[r] = "adv_write" /\ pc'[r] # pc[r]) =>
            /\ \A row \in cron_triggers :
                    row.id # t[r].id => row \in cron_triggers'
            /\ (\A row \in cron_triggers : row.id # t[r].id) =>
                    pc'[r] # "cron_start"]_vars


\* the advances of the trigger that return True in the step
NewTrueAdvances(id) ==
    {rec \in returned' \ returned : rec.id = id /\ rec.result}

\* C33: a cron trigger with remaining_executions = n >= 1 yields exactly n
\* advances that return True: each of them lowers the stored count by one,
\* the one that finds the count at 1 deletes the row, and nothing else
\* changes the count or removes the row; a trigger with
\* remaining_executions = null is never deleted and keeps null.
C33_CountedTriggerAdvancesExactlyNTimes ==
    [][\A row \in cron_triggers :
        LET after == {row2 \in cron_triggers' : row2.id = row.id}
            advanced == NewTrueAdvances(row.id) # {}
        IN /\ Cardinality(NewTrueAdvances(row.id)) <= 1
           /\ row.remaining_executions = None =>
                /\ after # {}
                /\ \A row2 \in after : row2.remaining_executions = None
           /\ row.remaining_executions # None =>
                /\ row.remaining_executions >= 1
                /\ advanced /\ row.remaining_executions = 1 => after = {}
                /\ advanced /\ row.remaining_executions > 1 =>
                    /\ after # {}
                    /\ \A row2 \in after : row2.remaining_executions =
                                            row.remaining_executions - 1
                /\ ~advanced => after = {row}]_vars

\* a trigger created with a count of 2 was advanced twice with True, by an
\* update and then by the delete, in two different ticks of one runner, and
\* is gone
C33_Witness ==
    \E rec1, rec2 \in returned :
        /\ rec1.id = rec2.id /\ rec1.r = rec2.r
        /\ rec1.how = "updated" /\ rec1.result
        /\ rec2.how = "deleted" /\ rec2.result
        /\ rec1.next < rec2.next
        /\ \A row \in cron_triggers : row.id # rec1.id
        /\ Cardinality({rec \in returned : rec.id = rec1.id /\ rec.result}) = 2


(* ------------------ more claims about the solver ---------------------- *)

\* a call of the solver on a curve with datetime keys, with a duration and
\* a deadline, has ended and its removals of the past and of the late
\* hours met no missing key
SolverReachedItsLoop ==
    /\ call.fn = "_find_optimal_start_time_with_data"
    /\ call.stage = "done"
    /\ call.energy_prices \in DOMAIN PriceCurves
    /\ call.job_duration # None /\ call.deadline # None
    /\ PastHours(call.current_time) \subseteq
            DOMAIN MergedPrices(PriceCurves[call.energy_prices])
    /\ LateHours(call.job_duration, call.deadline) \subseteq
            DOMAIN MergedPrices(PriceCurves[call.energy_prices])
                \ PastHours(call.current_time)

\* the candidates of the call
CandidatesOfCall ==
    Candidates(call.current_time, PriceCurves[call.energy_prices],
               call.job_duration, call.deadline)

\* the candidates all of whose hours have a price in the reference curve
PricedCandidates ==
    {k \in CandidatesOfCall :
        CostKeys(k, call.job_duration) \subseteq
            DOMAIN MergedPrices(PriceCurves[call.energy_prices])}

\* C34: the solver rejects, without raising, every candidate start hour for
\* which some hour of the job has no price in the reference curve, and
\* returns the cheapest of the remaining candidates.
C34_UnpricedCandidatesAreRejectedWithoutRaising ==
    (SolverReachedItsLoop /\ PricedCandidates # CandidatesOfCall) =>
        /\ call.out.raised = ""
        /\ PricedCandidates # {} =>
            /\ call.out.value \in PricedCandidates
            /\ \A k \in PricedCandidates :
                    CostOf(call.out.value) <= CostOf(k)


\* the solver has returned a start time for a deadline with
\* deadline - duration inside the price horizon
ReturnedInsideHorizon ==
    /\ SolverReturned
    /\ call.out.value # None
    /\ call.deadline - call.job_duration < FinalTime

\* C35 (as stated): when deadline - duration lies inside the price horizon
\* and is hour-aligned, that hour itself is ineligible: the returned start
\* is strictly earlier than deadline - duration.
C35_AlignedLastHourIsIneligible ==
    (ReturnedInsideHorizon
        /\ (call.deadline - call.job_duration) % Hour = 0) =>
            call.out.value < call.deadline - call.job_duration

\* C35 (amended): when deadline - duration lies inside the price horizon
\* and is hour-aligned, that hour itself stays a candidate (the first hour
\* removed is the one after it): the returned start is not later than
\* deadline - duration and may be that very hour.
C35_AlignedLastHourStaysEligible ==
    (SolverReachedItsLoop
        /\ call.deadline - call.job_duration < FinalTime
        /\ (call.deadline - call.job_duration) % Hour = 0) =>
            /\ ((call.deadline - call.job_duration) \div Hour
                    > call.current_time \div Hour) =>
                  call.deadline - call.job_duration \in CandidatesOfCall
            /\ (call.out.raised = "" /\ call.out.value # None) =>
                  call.out.value <= call.deadline - call.job_duration

\* at 21:00 a job of 60 minutes with deadline 23:00 was given 22:00, the
\* hour of deadline - duration, as its start
C35_Witness ==
    /\ ReturnedInsideHorizon
    /\ call.current_time = 21 * Hour
    /\ call.job_duration = 60
    /\ call.deadline = 23 * Hour
    /\ call.out.value = 22 * Hour

\* C36: whenever the solver returns a start time t for a deadline with
\* deadline - duration inside the price horizon, the job finishes by the
\* deadline counting its full duration: t + job_duration <= deadline.
C36_JobOfFullDurationEndsByDeadline ==
    ReturnedInsideHorizon =>
        call.out.value + call.job_duration <= call.deadline

\* a job of 75 minutes with deadline 01:30 was given 00:00, the last hour
\* left, as its start: it ends 15 minutes before the deadline
C36_Witness ==
    /\ ReturnedInsideHorizon
    /\ call.job_duration = 75
    /\ call.deadline = Day + 90
    /\ call.out.value = Day
    /\ call.out.value + Hour > call.deadline - call.job_duration


(* ------------- claims about exceptions in the cron loop --------------- *)

\* the step ends the processing of the trigger runner r has in hand
EndsTrigger(r) ==
    /\ InCronLoop(r)
    /\ pc'[r] = "idle" \/ todo'[r] # todo[r]

\* C37: in the cron loop a failure of advance_cron_trigger or of
\* StartWorkflow for one due trigger is caught and the remaining due
\* triggers of the tick are still processed, and the identity context is
\* reset after every trigger on the normal and on the failing path: the
\* step that ends a trigger, with or without an exception, takes the next
\* trigger of the list under that trigger's context, or ends the task with
\* the context cleared when the list is exhausted.
C37_CronLoopSurvivesFailures ==
    [][\A r \in Runners : EndsTrigger(r) =>
            IF todo[r] = <<>>
            THEN pc'[r] = "idle" /\ ctx'[r] = ""
            ELSE /\ pc'[r] = "adv_get"
                 /\ t'[r].id = Head(todo[r]).id
                 /\ ctx'[r] = Head(todo[r]).name
                 /\ todo'[r] = Tail(todo[r])]_vars

\* a runner's tick listed two due triggers; the advance of the first
\* raised, the second was advanced and started, and the task ended with
\* the context cleared
C37_Witness ==
    \E r \in Runners :
        /\ failed = {[r |-> r, id |-> 1, next |-> 0,
                      at |-> "advance_cron_trigger"]}
        /\ \A rec \in returned : rec.id = 2 /\ rec.r = r
        /\ CopiesIn(<<r, 2, 1>>, cron_starts) = 1
        /\ pc[r] = "idle"
        /\ ctx[r] = ""


\* the curves of the model hold a price for each of the 48 hours
CompleteCurve(name) ==
    DOMAIN MergedPrices(PriceCurves[name]) = {h * Hour : h \in 0..47}

\* C38: for a complete 48-hour price curve, every current_time, every
\* job_duration in 1..360 and every deadline at least a minute after
\* current_time (the only condition Create enforces),
\* _find_optimal_start_time_with_data ends with a start time that is not
\* None and raises no error, also when deadline - job_duration is already
\* in the past or falls in the current hour.
C38_SolverIsTotalOnAdmittedWorkloads ==
    (/\ call.fn = "_find_optimal_start_time_with_data"
     /\ call.stage = "done"
     /\ call.energy_prices \in DOMAIN PriceCurves
     /\ CompleteCurve(call.energy_prices)
     /\ call.job_duration \in 1..MINIMUM_LONG_TERM_WORKLOAD
     /\ call.deadline # None
     /\ call.deadline >= call.current_time + 1) =>
        /\ call.out.raised = ""
        /\ call.out.value # None


(* ------------------ claims about deferred workloads ------------------- *)

\* the policies that defer a workload by a one-shot cron trigger
DeferringPolicies ==
    {"_dtw_last_minute_scheduling", "_dtw_energy_aware_scheduling"}

\* the workloads whose one-shot trigger is in the store
Deferred == {n \in DOMAIN dtws : GetCronTrigger(n) # {}}

\* C39: once a DTW has been deferred by a LastMinute or EnergyAware tick
\* (its one-shot trigger exists), every later tick of the same policy skips
\* it: the tick does not take it into its list, so it attempts no second
\* trigger creation for it and leaves its trigger and flags unchanged, and
\* no tick ends with the duplicate-entry error of a second creation.
C39_LaterTicksSkipDeferredWorkloads ==
    [][\A r \in Runners :
        /\ (/\ pc[r] = "idle"
            /\ tick'[r] # tick[r]
            /\ tick'[r].policy \in DeferringPolicies) =>
                tick'[r].unexecuted \cap Deferred = {}
        /\ raised'[r] # "DBDuplicateEntryError"]_vars


\* runner q has run no tick that left a trace: it is idle and has advanced
\* no trigger, started no workflow, written no flag and run no DTW tick
HasNotActed(q) ==
    /\ pc[q] = "idle"
    /\ tick[q].policy = "" /\ raised[q] = ""
    /\ \A rec \in returned : rec.r # q
    /\ \A k \in BagToSet(cron_starts) : k[1] # q
    /\ \A k \in BagToSet(dtw_starts) : k[1] # q
    /\ \A k \in wrote_executed : k[1] # q

\* C40: with a single runner process and a fixed mode, over any number of
\* ticks of the DTW loop and of the cron loop, StartWorkflow is invoked at
\* most once for each DTW, counting the direct dispatch and the dispatch
\* through the DTW's cron trigger.  Stated for the stores that hold one
\* DTW, where every cron trigger of the store is that DTW's: while only
\* one runner has acted, the direct starts and the starts by the cron loop
\* together are at most one.
C40_OneRunnerStartsEachWorkloadAtMostOnce ==
    \A r \in Runners : \A n \in DOMAIN dtws :
        (/\ \A q \in Runners \ {r} : HasNotActed(q)
         /\ DOMAIN dtws = {n}) =>
            StartsFor(n) + BagCardinality(cron_starts) <= 1

====
